---- MODULE Spec2Model ----
(***************************************************************************)
(* State-machine model of tuf/ngclient/_internal/requests_fetcher.py:      *)
(* RequestsFetcher.fetch, the generator RequestsFetcher._chunks and the    *)
(* per scheme+hostname session pool of RequestsFetcher._get_session.       *)
(*                                                                         *)
(* One fetcher instance is modelled.  Its consumer calls fetch, then pulls *)
(* (next()) from the returned generator or abandons it (generator.close(), *)
(* which is also what dropping the last reference does).  The model tracks *)
(* one stream at a time: the next fetch is made once the previous stream   *)
(* is finished or abandoned.  Strings are sequences of one-character       *)
(* strings, byte strings are sequences of byte values.                     *)
(***************************************************************************)
EXTENDS Integers, Sequences, FiniteSets, TLC

\* self.socket_timeout: int = 4  # seconds
socket_timeout == 4

\* ------------------------------------------------------------------ bounds
MaxLen == 3
MaxChunk == 2
MaxFetches == 2
MaxPulls == 5

\* ------------------------------------------------------------- the inputs
\* The URLs the consumer passes to fetch.
Urls ==
  { <<"a", ":", "/", "/", "b">>,
    <<"a", ":", "/", "/", "b", "/", "a">>,
    <<"b", ":", "/", "/", "a">>,
    <<"a", "+", "b", ":", "/", "/", "a">>,
    <<"a", ":", "/", "/", "b", "+", "a">>,
    <<"/", "/", "b">>,
    <<"a", ":", "/", "b">>,
    <<"b">> }

\* The status codes a server answers the GET with.
Statuses == {200, 404, 500}

\* byte i of the response body, in wire order
BodyByte(i) == i

\* ----------------------------------------------------------------- state
VARIABLES
  sessions,         \* self._sessions: session_index -> Session (its identity)
  created,          \* number of requests.Session() objects constructed
  used,             \* the (scheme, hostname, Session) of every fetch so far
  fetches,          \* number of fetch calls made
  gets,             \* number of session.get calls (GET requests issued)
  chunk_size,       \* self.chunk_size
  url,              \* argument of the latest fetch call
  required_length,  \* argument of the latest fetch call
  status,           \* response.status_code of the latest response, 0: none
  err_status,       \* the status carried by the FetcherHTTPError raised
  gen,              \* the generator: none, created, suspended, closed
  bytes_received,   \* local of _chunks
  delivered,        \* bytes the server handed to response.raw.read so far
  chunks,           \* the chunks yielded so far, in order
  reads,            \* number of response.raw.read calls
  closes,           \* number of response.close() calls
  pulls,            \* number of next() calls on the generator
  amounts,          \* the read_amount of every response.raw.read call, in order
  headers,          \* session.headers of every Session constructed
  last_read,        \* what the read of the latest pull did: none, data, empty, timeout, error
  ending,           \* how the generator finished: none, eof, length, timeout, error, abandoned
  result,           \* what the latest call gave its caller
  sleep_before_round, \* self.sleep_before_round, 0: None
  wait,             \* seconds the latest read waited for the server's next byte
  elapsed,          \* seconds spent in sleeps and reads since fetch returned
  pc,               \* where each interleaved call of _get_session stands
  call_url,         \* the url of each interleaved call
  mine,             \* the local "session" of each interleaved call, 0: None
  stored_at_lookup, \* whether the pool held the call's key when it looked it up
  made              \* the calls that constructed a Session

vars ==
  << sessions, created, used, fetches, gets, chunk_size, url, required_length,
     status, err_status, gen, bytes_received, delivered, chunks, reads, closes,
     pulls, amounts, headers, last_read, ending, result,
     sleep_before_round, wait, elapsed,
     pc, call_url, mine, stored_at_lookup, made >>

\* the two calls of _get_session that run interleaved
Callers == {1, 2}

\* the interleaved calls; the specifications Spec and SpecTimed make none
callVars == << pc, call_url, mine, stored_at_lookup, made >>

\* one response and its generator
streamVars ==
  << fetches, gets, chunk_size, url, required_length, status, err_status, gen,
     bytes_received, delivered, chunks, reads, closes, pulls, amounts,
     last_read, ending, result >>

\* the clock of a transfer; the specification Spec leaves time out
clockVars == << sleep_before_round, wait, elapsed >>

\* ------------------------------------------------------------ pure helpers
Min(a, b) == IF a <= b THEN a ELSE b

RECURSIVE SumLen(_)
SumLen(cs) == IF cs = <<>> THEN 0 ELSE Len(Head(cs)) + SumLen(Tail(cs))

RECURSIVE SumSeq(_)
SumSeq(s) == IF s = <<>> THEN 0 ELSE Head(s) + SumSeq(Tail(s))

RECURSIVE Concat(_)
Concat(cs) == IF cs = <<>> THEN <<>> ELSE Head(cs) \o Concat(Tail(cs))

\* index of the first element of s that is in set cs, Len(s)+1 when none
RECURSIVE FindFrom(_, _, _)
FindFrom(s, cs, i) ==
  IF i > Len(s) THEN Len(s) + 1
  ELSE IF s[i] \in cs THEN i
  ELSE FindFrom(s, cs, i + 1)

Letters == {"a", "b"}
SchemeChars == Letters \cup {"+"}

\* urllib.parse.urlparse(url), as far as .scheme and .hostname go: the scheme
\* is what precedes the first ":" when that is non-empty, starts with a letter
\* and holds scheme characters only; the netloc follows a leading "//" up to
\* the next "/"; the hostname is the netloc up to a ":".  A missing part is <<>>.
urlparse(u) ==
  LET i      == FindFrom(u, {":"}, 1)
      hasSch == /\ i > 1
                /\ i <= Len(u)
                /\ u[1] \in Letters
                /\ \A j \in 1..(i - 1) : u[j] \in SchemeChars
      scheme == IF hasSch THEN SubSeq(u, 1, i - 1) ELSE <<>>
      rest   == IF hasSch THEN SubSeq(u, i + 1, Len(u)) ELSE u
      hasNet == Len(rest) >= 2 /\ rest[1] = "/" /\ rest[2] = "/"
      e      == FindFrom(rest, {"/"}, 3)
      netloc == IF hasNet THEN SubSeq(rest, 3, e - 1) ELSE <<>>
      h      == FindFrom(netloc, {":"}, 1)
  IN  [scheme |-> scheme, hostname |-> SubSeq(netloc, 1, h - 1)]

\* parsed_url = parse.urlparse(url), for the URLs of the model
parsed_url == [u \in Urls |-> urlparse(u)]

\* the check with the hostname test left out
UrlRejectedSchemeOnly(p) == p.scheme = <<>>

\* if not parsed_url.scheme or not parsed_url.hostname
UrlRejected(p) == p.scheme = <<>> \/ p.hostname = <<>>

\* session_index = parsed_url.scheme + "+" + parsed_url.hostname
SessionIndex(p) == p.scheme \o <<"+">> \o p.hostname

\* the lookup that never finds the stored session
PoolNeverHit(pool, key) == FALSE

\* session = self._sessions.get(session_index); if not session: ...
PoolHit(pool, key) == key \in DOMAIN pool

\* a status check that takes only the 5xx codes for failures
RaiseForServerErrorOnly(s) == s >= 500 /\ s < 600

\* response.raise_for_status() raises HTTPError
RaiseForStatus(s) == s >= 400 /\ s < 600

\* the cap taken from required_length alone, bytes_received not subtracted
ReadAmountIgnoresReceived(cs, req, recv) == Min(cs, req)

\* the cap one byte too wide
ReadAmountOffByOne(cs, req, recv) == Min(cs, req - recv + 1)

\* the read amount without the cap by what is left of required_length
ReadAmountUncapped(cs, req, recv) == cs

\* read_amount = min(self.chunk_size, required_length - bytes_received)
ReadAmount(cs, req, recv) == Min(cs, req - recv)

\* the break taken only past required_length
LengthSatisfiedStrict(recv, req) == recv > req

\* if bytes_received >= required_length: break
LengthSatisfied(recv, req) == recv >= req

\* response.close()
ResponseClose(n) == n + 1

\* the data a read of k bytes returns when d bytes were delivered before it
Data(d, k) == [i \in 1..k |-> BodyByte(d + i)]

\* the first n bytes of the response body, in wire order
Body(n) == [i \in 1..n |-> BodyByte(i)]

\* the lengths of the chunks, in yield order
Sizes(cs) == [i \in 1..Len(cs) |-> Len(cs[i])]

\* a chunk handed over ahead of the chunks yielded before it
YieldFirst(cs, data) == <<data>> \o cs

\* yield data: the chunk follows the chunks yielded before it
Yield(cs, data) == Append(cs, data)

\* session.headers of a new requests.Session()
DefaultHeaders ==
  [user_agent |-> <<"python-requests">>, accept_encoding |-> "gzip, deflate"]

\* tuf_user_agent = "tuf/" + tuf.__version__ + " " + requests_user_agent;
\* session.headers.update({"Accept-Encoding": "identity", "User-Agent": ...})
AttachHeaders(h) ==
  [user_agent |-> <<"tuf/", "__version__", " ">> \o h.user_agent,
   accept_encoding |-> "identity"]

\* the default headers attached again on a pool hit
ReattachHeaders(h) == AttachHeaders(h)

\* else: logger.debug("Reusing session ..."): the headers stay as they are
ReuseHeaders(h) == h

\* the except clause left out: the urllib3 exception reaches the consumer
ReadTimeoutUnmapped == "ReadTimeoutError"

\* except urllib3.exceptions.ReadTimeoutError: raise SlowRetrievalError
OnReadTimeout == "SlowRetrievalError"

\* an empty read before required_length taken for an error
ShortReadIsError(recv, req) ==
  IF recv < req THEN "DownloadLengthMismatchError" ELSE "StopIteration"

\* if not data: break   (the generator then returns: StopIteration)
OnEmptyRead(recv, req) == "StopIteration"

\* the close left to the except clause: no finally
FinallyMissing(n) == n

\* finally: response.close()
Finally(n) == ResponseClose(n)

\* ------------------------------------------------------------------- Init
InitFetcher ==
  /\ sessions = << >>
  /\ created = 0
  /\ used = {}
  /\ fetches = 0
  /\ gets = 0
  /\ chunk_size \in 1..MaxChunk
  /\ url = << >>
  /\ required_length = 0
  /\ status = 0
  /\ err_status = 0
  /\ gen = "none"
  /\ bytes_received = 0
  /\ delivered = 0
  /\ chunks = << >>
  /\ reads = 0
  /\ closes = 0
  /\ pulls = 0
  /\ amounts = << >>
  /\ headers = << >>
  /\ last_read = "none"
  /\ ending = "none"
  /\ result = "none"
  /\ wait = 0
  /\ elapsed = 0
  /\ pc = [c \in Callers |-> "idle"]
  /\ call_url = [c \in Callers |-> << >>]
  /\ mine = [c \in Callers |-> 0]
  /\ stored_at_lookup = [c \in Callers |-> FALSE]
  /\ made = {}

\* __init__: self.sleep_before_round = None
Init == InitFetcher /\ sleep_before_round = 0

\* ------------------------------------------------------------------ fetch
\* the consumer calls fetch(u, r); it holds no generator of an earlier call
FetchCall(u, r) ==
  /\ fetches < MaxFetches
  /\ gen = "none"
  /\ fetches' = fetches + 1
  /\ url' = u
  /\ required_length' = r
  /\ UNCHANGED << chunk_size, clockVars, callVars >>

\* the part of the state that belongs to one response and its generator,
\* as it is when the call made no response or the response is fresh
FreshStream ==
  /\ bytes_received' = 0
  /\ delivered' = 0
  /\ chunks' = << >>
  /\ reads' = 0
  /\ pulls' = 0
  /\ amounts' = << >>
  /\ last_read' = "none"
  /\ ending' = "none"

\* _get_session(url) past the URL check: look the session up, make and store
\* one on a miss
GetSession(u) ==
  LET p   == parsed_url[u]
      key == SessionIndex(p)
      hit == PoolHit(sessions, key)
      s   == IF hit THEN sessions[key] ELSE created + 1
  IN  /\ sessions' = IF hit THEN sessions ELSE (key :> s) @@ sessions
      /\ created' = IF hit THEN created ELSE created + 1
      /\ used' = used \cup {[scheme |-> p.scheme, hostname |-> p.hostname, session |-> s]}
      /\ headers' = IF hit THEN [headers EXCEPT ![s] = ReuseHeaders(@)]
                           ELSE (s :> AttachHeaders(DefaultHeaders)) @@ headers

\* fetch: _get_session raises URLParsingError
FetchBadUrl(u, r) ==
  /\ FetchCall(u, r)
  /\ UrlRejected(parsed_url[u])
  /\ result' = "URLParsingError"
  /\ FreshStream
  /\ status' = 0 /\ err_status' = 0 /\ gen' = "none" /\ closes' = 0
  /\ UNCHANGED << sessions, created, used, gets, headers >>

\* fetch: session.get raises (connection refused, connect timeout, ...);
\* line 84 is outside every try, the requests exception reaches the caller
FetchConnectFail(u, r) ==
  /\ FetchCall(u, r)
  /\ ~UrlRejected(parsed_url[u])
  /\ GetSession(u)
  /\ gets' = gets + 1
  /\ result' = "ConnectionError"
  /\ FreshStream
  /\ status' = 0 /\ err_status' = 0 /\ gen' = "none" /\ closes' = 0

\* fetch: the response has status s and raise_for_status raises HTTPError
FetchHttpError(u, r, s) ==
  /\ FetchCall(u, r)
  /\ ~UrlRejected(parsed_url[u])
  /\ GetSession(u)
  /\ gets' = gets + 1
  /\ status' = s
  /\ RaiseForStatus(s)
  /\ closes' = ResponseClose(0)
  /\ err_status' = s
  /\ result' = "FetcherHTTPError"
  /\ FreshStream
  /\ gen' = "none"

\* fetch without stream=True: the first round of the body is read in fetch
FetchOkEager(u, r, s) ==
  /\ FetchCall(u, r)
  /\ ~UrlRejected(parsed_url[u])
  /\ GetSession(u)
  /\ gets' = gets + 1
  /\ status' = s
  /\ ~RaiseForStatus(s)
  /\ closes' = 0
  /\ err_status' = 0
  /\ result' = "stream"
  /\ bytes_received' = 0
  /\ delivered' = 0
  /\ chunks' = << >>
  /\ reads' = 1
  /\ pulls' = 0
  /\ amounts' = << ReadAmount(chunk_size, r, 0) >>
  /\ last_read' = "none"
  /\ ending' = "none"
  /\ gen' = "created"

\* fetch: the response has status s and the generator is returned, unstarted
FetchOk(u, r, s) ==
  /\ FetchCall(u, r)
  /\ ~UrlRejected(parsed_url[u])
  /\ GetSession(u)
  /\ gets' = gets + 1
  /\ status' = s
  /\ ~RaiseForStatus(s)
  /\ closes' = 0
  /\ err_status' = 0
  /\ result' = "stream"
  /\ FreshStream
  /\ gen' = "created"

\* ------------------------------------------------------ next(generator)
\* the consumer pulls; the call leaves the pool and the request alone
NextCall ==
  /\ gen # "none"
  /\ pulls < MaxPulls
  /\ pulls' = pulls + 1
  /\ UNCHANGED << sessions, created, used, headers, fetches, gets,
                  chunk_size, url, required_length, status, err_status,
                  callVars >>

\* the pull with time left out
PullCall == NextCall /\ UNCHANGED clockVars

\* the generator runs into response.raw.read: it was just started, or it is
\* resumed after a yield with bytes_received < required_length
ReachesRead ==
  \/ gen = "created"
  \/ gen = "suspended" /\ ~LengthSatisfied(bytes_received, required_length)

\* the read returns k >= 1 bytes, which are yielded
GenData(k) ==
  /\ ReachesRead
  /\ k \in 1..ReadAmount(chunk_size, required_length, bytes_received)
  /\ reads' = reads + 1
  /\ amounts' = Append(amounts, ReadAmount(chunk_size, required_length, bytes_received))
  /\ last_read' = "data"
  /\ delivered' = delivered + k
  /\ bytes_received' = bytes_received + Len(Data(delivered, k))
  /\ chunks' = Yield(chunks, Data(delivered, k))
  /\ gen' = "suspended"
  /\ result' = "chunk"
  /\ UNCHANGED << closes, ending >>

\* next(): a read that returns data
PullData(k) == PullCall /\ GenData(k)

\* the empty data yielded like any other: no "if not data: break"
PullEmptyYielded ==
  /\ PullCall
  /\ ReachesRead
  /\ reads' = reads + 1
  /\ amounts' = Append(amounts, ReadAmount(chunk_size, required_length, bytes_received))
  /\ last_read' = "empty"
  /\ chunks' = Yield(chunks, << >>)
  /\ gen' = "suspended"
  /\ result' = "chunk"
  /\ UNCHANGED << delivered, bytes_received, closes, ending >>

\* the read returns b"": break, finally, the generator returns
GenEmpty ==
  /\ ReachesRead
  /\ reads' = reads + 1
  /\ amounts' = Append(amounts, ReadAmount(chunk_size, required_length, bytes_received))
  /\ last_read' = "empty"
  /\ closes' = Finally(closes)
  /\ gen' = "closed"
  /\ ending' = "eof"
  /\ result' = OnEmptyRead(bytes_received, required_length)
  /\ UNCHANGED << delivered, bytes_received, chunks >>

\* next(): a read that returns no data
PullEmpty == PullCall /\ GenEmpty

\* the read raises urllib3 ReadTimeoutError: except, finally
GenTimeout ==
  /\ ReachesRead
  /\ reads' = reads + 1
  /\ amounts' = Append(amounts, ReadAmount(chunk_size, required_length, bytes_received))
  /\ last_read' = "timeout"
  /\ closes' = Finally(closes)
  /\ gen' = "closed"
  /\ ending' = "timeout"
  /\ result' = OnReadTimeout
  /\ UNCHANGED << delivered, bytes_received, chunks >>

\* next(): a read that times out
PullTimeout == PullCall /\ GenTimeout

\* the read raises another exception (urllib3 ProtocolError, ...): finally,
\* and the exception reaches the consumer as it is
PullError ==
  /\ PullCall
  /\ ReachesRead
  /\ reads' = reads + 1
  /\ amounts' = Append(amounts, ReadAmount(chunk_size, required_length, bytes_received))
  /\ last_read' = "error"
  /\ closes' = Finally(closes)
  /\ gen' = "closed"
  /\ ending' = "error"
  /\ result' = "ProtocolError"
  /\ UNCHANGED << delivered, bytes_received, chunks >>

\* resumed after a yield with bytes_received >= required_length: break,
\* finally, the generator returns
GenLengthReached ==
  /\ gen = "suspended"
  /\ LengthSatisfied(bytes_received, required_length)
  /\ last_read' = "none"
  /\ closes' = Finally(closes)
  /\ gen' = "closed"
  /\ ending' = "length"
  /\ result' = "StopIteration"
  /\ UNCHANGED << delivered, bytes_received, chunks, reads, amounts >>

\* next(): the length was reached by the chunk yielded last
PullLengthReached == PullCall /\ GenLengthReached

\* a finished generator that runs its body again on the next pull
PullFinishedRestarts ==
  /\ PullCall
  /\ gen = "closed"
  /\ reads' = reads + 1
  /\ amounts' = Append(amounts, ReadAmount(chunk_size, required_length, bytes_received))
  /\ last_read' = "empty"
  /\ closes' = Finally(closes)
  /\ result' = "StopIteration"
  /\ UNCHANGED << delivered, bytes_received, chunks, gen, ending >>

\* next() on a finished generator: StopIteration, no code of _chunks runs
PullFinished ==
  /\ PullCall
  /\ gen = "closed"
  /\ last_read' = "none"
  /\ result' = "StopIteration"
  /\ UNCHANGED << delivered, bytes_received, chunks, reads, amounts, closes,
                  gen, ending >>

\* ----------------------------------------------------- generator.close()
\* the consumer discards the generator
AbandonCall ==
  /\ gen # "none"
  /\ last_read' = "none"
  /\ result' = "closed"
  /\ UNCHANGED << sessions, created, used, headers, fetches, gets,
                  chunk_size, url, required_length, status, err_status,
                  delivered, bytes_received, chunks, reads, amounts, pulls,
                  clockVars, callVars >>

\* never started: the generator is marked finished, no code of _chunks runs
AbandonUnstarted ==
  /\ AbandonCall
  /\ gen = "created"
  /\ gen' = "closed"
  /\ ending' = "abandoned"
  /\ UNCHANGED closes

\* suspended at the yield: GeneratorExit is raised there, finally runs
AbandonSuspended ==
  /\ AbandonCall
  /\ gen = "suspended"
  /\ closes' = Finally(closes)
  /\ gen' = "closed"
  /\ ending' = "abandoned"

\* already finished: nothing happens
AbandonFinished ==
  /\ AbandonCall
  /\ gen = "closed"
  /\ result # "closed"
  /\ UNCHANGED << closes, gen, ending >>

\* the consumer lets go of a finished generator and of what the latest call
\* gave it; no code of the fetcher runs
Forget ==
  /\ gen = "closed"
  /\ gen' = "none"
  /\ FreshStream
  /\ status' = 0 /\ err_status' = 0 /\ closes' = 0
  /\ url' = << >>
  /\ required_length' = 0
  /\ result' = "none"
  /\ UNCHANGED << sessions, created, used, headers, fetches, gets, chunk_size,
                  clockVars, callVars >>

\* ------------------------------------------------------------------- Next
Next ==
  \/ \E u \in Urls, r \in 0..MaxLen : FetchBadUrl(u, r)
  \/ \E u \in Urls, r \in 0..MaxLen : FetchConnectFail(u, r)
  \/ \E u \in Urls, r \in 0..MaxLen, s \in Statuses : FetchHttpError(u, r, s)
  \/ \E u \in Urls, r \in 0..MaxLen, s \in Statuses : FetchOk(u, r, s)
  \/ \E k \in 1..MaxChunk : PullData(k)
  \/ PullEmpty
  \/ PullTimeout
  \/ PullError
  \/ PullLengthReached
  \/ PullFinished
  \/ AbandonUnstarted
  \/ AbandonSuspended
  \/ AbandonFinished
  \/ Forget

Spec == Init /\ [][Next]_vars

\* ------------------------------------------------- one transfer with time
\* The server takes d seconds to send the next byte (or to close) after a
\* read is issued.  session.get(url, stream=True, timeout=self.socket_timeout)
\* makes every read of the response raise ReadTimeoutError when it has
\* waited socket_timeout seconds without a byte.
Stalls == 0..(socket_timeout + 1)

\* the URL of the transfer
TimedUrl == <<"a", ":", "/", "/", "b">>

\* a timeout that bounds the whole transfer: the time spent so far counts
OverallDeadline(d, spent) == spent + d > socket_timeout

\* timeout=self.socket_timeout: the time spent before the read plays no part
ReadTimesOut(d, spent) == d > socket_timeout

\* if self.sleep_before_round: time.sleep(self.sleep_before_round),
\* then the read returns after d seconds
RoundTakes(d) ==
  /\ wait' = d
  /\ elapsed' = elapsed + sleep_before_round + d
  /\ UNCHANGED sleep_before_round

InitTimed == InitFetcher /\ sleep_before_round \in {0, 1}

TimedFetch(r) == FetchOk(TimedUrl, r, 200)

TimedPullData(k, d) ==
  /\ NextCall
  /\ ~ReadTimesOut(d, elapsed)
  /\ GenData(k)
  /\ RoundTakes(d)

TimedPullEmpty(d) ==
  /\ NextCall
  /\ ~ReadTimesOut(d, elapsed)
  /\ GenEmpty
  /\ RoundTakes(d)

\* the read gives up after socket_timeout seconds
TimedPullTimeout(d) ==
  /\ NextCall
  /\ ReadTimesOut(d, elapsed)
  /\ GenTimeout
  /\ wait' = d
  /\ elapsed' = elapsed + sleep_before_round + Min(d, socket_timeout)
  /\ UNCHANGED sleep_before_round

\* the break comes before the sleep and the read of a next round
TimedPullLengthReached ==
  /\ NextCall
  /\ GenLengthReached
  /\ wait' = 0
  /\ UNCHANGED << elapsed, sleep_before_round >>

NextTimed ==
  \/ \E r \in 0..MaxLen : TimedFetch(r)
  \/ \E k \in 1..MaxChunk, d \in Stalls : TimedPullData(k, d)
  \/ \E d \in Stalls : TimedPullEmpty(d)
  \/ \E d \in Stalls : TimedPullTimeout(d)
  \/ TimedPullLengthReached

SpecTimed == InitTimed /\ [][NextTimed]_vars

\* ------------------------------------ two calls of _get_session interleaved
\* Two threads call fetch on one fetcher.  A call of _get_session is cut at
\* its reads and writes of self._sessions: the lookup (line 163), the
\* construction of the Session (line 166), the store (line 167) and the
\* update of the headers (lines 170-183); the calls' steps interleave freely.
CallFrame(c) ==
  /\ UNCHANGED << streamVars, clockVars >>
  /\ \A o \in Callers \ {c} :
       /\ pc'[o] = pc[o]
       /\ call_url'[o] = call_url[o]
       /\ mine'[o] = mine[o]
       /\ stored_at_lookup'[o] = stored_at_lookup[o]

\* the key of call c
CallKey(c) == SessionIndex(urlparse(call_url[c]))

\* the call returns its session to fetch
CallReturns(c) ==
  used' = used \cup {[scheme   |-> urlparse(call_url[c]).scheme,
                       hostname |-> urlparse(call_url[c]).hostname,
                       session  |-> mine'[c]]}

\* lines 155-162: the URL is parsed and checked, the key is built
CallBegin(c, u) ==
  /\ pc[c] = "idle"
  /\ call_url' = [call_url EXCEPT ![c] = u]
  /\ pc' = [pc EXCEPT ![c] =
              IF UrlRejected(urlparse(u)) THEN "raised" ELSE "lookup"]
  /\ UNCHANGED << sessions, created, used, headers, mine, stored_at_lookup, made >>
  /\ CallFrame(c)

\* line 163, and the else branch on a hit: the stored session is returned
CallLookup(c) ==
  /\ pc[c] = "lookup"
  /\ stored_at_lookup' =
       [stored_at_lookup EXCEPT ![c] = CallKey(c) \in DOMAIN sessions]
  /\ IF PoolHit(sessions, CallKey(c))
       THEN /\ mine' = [mine EXCEPT ![c] = sessions[CallKey(c)]]
            /\ pc' = [pc EXCEPT ![c] = "done"]
            /\ headers' = [headers EXCEPT ![sessions[CallKey(c)]] = ReuseHeaders(@)]
            /\ CallReturns(c)
       ELSE /\ mine' = [mine EXCEPT ![c] = 0]
            /\ pc' = [pc EXCEPT ![c] = "create"]
            /\ UNCHANGED << headers, used >>
  /\ UNCHANGED << sessions, created, call_url, made >>
  /\ CallFrame(c)

\* line 166: session = requests.Session()
CallCreate(c) ==
  /\ pc[c] = "create"
  /\ created' = created + 1
  /\ mine' = [mine EXCEPT ![c] = created + 1]
  /\ headers' = ((created + 1) :> DefaultHeaders) @@ headers
  /\ made' = made \cup {c}
  /\ pc' = [pc EXCEPT ![c] = "store"]
  /\ UNCHANGED << sessions, used, call_url, stored_at_lookup >>
  /\ CallFrame(c)

\* line 167: self._sessions[session_index] = session
CallStore(c) ==
  /\ pc[c] = "store"
  /\ sessions' = (CallKey(c) :> mine[c]) @@ sessions
  /\ pc' = [pc EXCEPT ![c] = "headers"]
  /\ UNCHANGED << created, used, headers, call_url, mine, stored_at_lookup, made >>
  /\ CallFrame(c)

\* lines 170-190: the default headers are attached, the session is returned
CallHeaders(c) ==
  /\ pc[c] = "headers"
  /\ headers' = [headers EXCEPT ![mine[c]] = AttachHeaders(@)]
  /\ pc' = [pc EXCEPT ![c] = "done"]
  /\ UNCHANGED << sessions, created, call_url, mine, stored_at_lookup, made >>
  /\ CallReturns(c)
  /\ CallFrame(c)

NextCalls ==
  \/ \E c \in Callers, u \in Urls : CallBegin(c, u)
  \/ \E c \in Callers : CallLookup(c)
  \/ \E c \in Callers : CallCreate(c)
  \/ \E c \in Callers : CallStore(c)
  \/ \E c \in Callers : CallHeaders(c)

SpecCalls == Init /\ [][NextCalls]_vars

\* ----------------------------------------------------------------- claims
\* C1. Length bound: in every reachable state of a stream returned by fetch
\* the sum of the lengths of the chunks yielded so far is at most
\* required_length, whatever chunk_size is and whatever the reads return.
C1_LengthBound == SumLen(chunks) <= required_length

\* required_length is reached with a second or later chunk
C1_Witness ==
  /\ gen = "suspended"
  /\ Len(chunks) >= 2
  /\ SumLen(chunks) = required_length

\* C2. Release exactly once: when a pull ends the sequence (empty read,
\* required_length reached, read timeout, other read error) response.close()
\* has been called exactly once when that pull returns, and it is never
\* called more than once for one response.
C2_ReleasedExactlyOnce ==
  /\ closes <= 1
  /\ ending \in {"eof", "length", "timeout", "error"} => closes = 1

\* a read error after a chunk was yielded ended the sequence
C2_Witness ==
  /\ ending = "error"
  /\ Len(chunks) >= 1
  /\ closes = 1

\* C3. Abandonment cleanup: when the consumer closes or discards the stream
\* before it is exhausted, after any number of pulls including none, the
\* response has been closed.
C3_AbandonReleases == ending = "abandoned" => closes = 1

\* C4. Stall detection: a read that times out, first or later, makes the pull
\* fail with SlowRetrievalError with the response closed, and the stream
\* yields no chunk and reads nothing afterwards.
C4_StallDetection ==
  /\ [](last_read = "timeout" => result = "SlowRetrievalError")
  /\ [](ending = "timeout" => gen = "closed" /\ closes = 1)
  /\ [][ending = "timeout" /\ ending' = "timeout"
          => chunks' = chunks /\ reads' = reads]_vars

\* a read timed out after a chunk was yielded
C4_Witness ==
  /\ last_read = "timeout"
  /\ Len(chunks) >= 1
  /\ result = "SlowRetrievalError"

\* C5. HTTP failure short-circuits: a response with a failure status makes
\* fetch raise FetcherHTTPError with that status, the response closed once,
\* no stream returned, no read of the body and no chunk.
C5_HttpFailure ==
  status >= 400 =>
    /\ result = "FetcherHTTPError"
    /\ err_status = status
    /\ closes = 1
    /\ gen = "none"
    /\ reads = 0
    /\ chunks = << >>

\* the server answered 404
C5_Witness ==
  /\ status = 404
  /\ result = "FetcherHTTPError"
  /\ err_status = 404

\* C6. Malformed URL rejected early: a fetch of a URL whose parsed scheme or
\* hostname is empty raises URLParsingError, issues no GET, creates no
\* Session and leaves the pool as it was.
C6_BadUrlRejected ==
  [][(/\ fetches' = fetches + 1
      /\ \/ urlparse(url').scheme = << >>
         \/ urlparse(url').hostname = << >>)
       => /\ result' = "URLParsingError"
          /\ gets' = gets
          /\ created' = created
          /\ sessions' = sessions]_vars

\* a malformed URL was rejected by a fetcher whose pool holds a session
C6_Witness ==
  /\ result = "URLParsingError"
  /\ fetches = 2
  /\ created = 1
  /\ gets = 1
  /\ DOMAIN sessions # {}

\* C7. Session reuse and no eviction: all calls with one (scheme, hostname)
\* pair use one Session, the one the pool holds for the pair, and a pool
\* entry is never removed or replaced.
C7_SessionReuse ==
  /\ [](\A x, y \in used :
          x.scheme = y.scheme /\ x.hostname = y.hostname
            => x.session = y.session)
  /\ [](\A x \in used :
          /\ SessionIndex(x) \in DOMAIN sessions
          /\ sessions[SessionIndex(x)] = x.session)
  /\ [][\A k \in DOMAIN sessions :
          k \in DOMAIN sessions' /\ sessions'[k] = sessions[k]]_vars

\* two calls were made with the same pair
C7_Witness ==
  /\ fetches = 2
  /\ gets = 2
  /\ created = 1
  /\ Cardinality(used) = 1

\* C8. Session isolation: two calls whose (scheme, hostname) pairs differ
\* never use the same Session.
C8_SessionIsolation ==
  \A x, y \in used :
    x.scheme # y.scheme \/ x.hostname # y.hostname => x.session # y.session

\* C9. Error taxonomy: every error fetch or its stream raises to the caller is
\* URLParsingError, FetcherHTTPError or SlowRetrievalError.
C9_ErrorTaxonomy ==
  result \in {"none", "stream", "chunk", "StopIteration", "closed",
              "URLParsingError", "FetcherHTTPError", "SlowRetrievalError"}

\* C10. Early EOF is normal termination: an empty read while bytes_received
\* is below required_length ends the sequence without an error, yields no
\* chunk, and the bytes yielded are the bytes the server delivered.
C10_EarlyEof ==
  /\ [](last_read = "empty" /\ bytes_received < required_length
          => /\ result = "StopIteration"
             /\ gen = "closed"
             /\ SumLen(chunks) = delivered)
  /\ [][last_read' = "empty" /\ pulls' = pulls + 1 => chunks' = chunks]_vars

\* the server closed after a chunk, short of required_length
C10_Witness ==
  /\ last_read = "empty"
  /\ Len(chunks) >= 1
  /\ bytes_received < required_length
  /\ result = "StopIteration"

\* C11. Content and order: when the server sends its bytes without stalling
\* and the consumer pulls to the end, the chunks concatenated in yield order
\* are the first min(N, required_length) bytes of the body in wire order (N
\* the bytes the server sent before it closed), and the sequence ends with no
\* error.  An empty read tells N = delivered; a sequence ended by the length
\* tells N >= required_length.
C11_ContentAndOrder ==
  /\ Concat(chunks) = Body(delivered)
  /\ ending = "eof" =>
       /\ Concat(chunks) = Body(Min(delivered, required_length))
       /\ result \in {"StopIteration", "closed"}
  /\ ending = "length" =>
       /\ Concat(chunks) = Body(required_length)
       /\ result \in {"StopIteration", "closed"}

\* the server closed after two chunks, short of required_length
C11_Witness ==
  /\ ending = "eof"
  /\ Len(chunks) >= 2
  /\ delivered < required_length
  /\ Concat(chunks) = Body(delivered)

\* the sizes c, ..., c, r mod c of the chunks of r bytes read c at a time
RECURSIVE ExpectedSizes(_, _)
ExpectedSizes(r, c) ==
  IF r <= 0 THEN << >>
  ELSE IF r >= c THEN <<c>> \o ExpectedSizes(r - c, c)
  ELSE <<r>>

\* the bytes read number i returned
Returned(i) == IF i <= Len(chunks) THEN Len(chunks[i]) ELSE 0

\* every read so far returned the full amount it asked for
AllReadsFull ==
  /\ ending \notin {"timeout", "error"}
  /\ \A i \in 1..Len(amounts) : Returned(i) = amounts[i]

\* C12. Chunking: when every read returns the full amount requested, the
\* chunk sizes are chunk_size repeated floor(R / chunk_size) times, then
\* R mod chunk_size if that is not zero: ceil(R / chunk_size) chunks.
C12_Chunking ==
  AllReadsFull =>
    /\ Len(chunks) <= Len(ExpectedSizes(required_length, chunk_size))
    /\ Sizes(chunks) = SubSeq(ExpectedSizes(required_length, chunk_size), 1, Len(chunks))
    /\ ending \in {"eof", "length"} =>
         /\ Sizes(chunks) = ExpectedSizes(required_length, chunk_size)
         /\ Len(chunks) = (required_length + chunk_size - 1) \div chunk_size

\* 3 bytes were read 2 at a time
C12_Witness ==
  /\ ending = "length"
  /\ AllReadsFull
  /\ Sizes(chunks) = <<2, 1>>

\* C13. Finiteness: a consumer that keeps pulling reaches the end of the
\* sequence or an error after at most required_length + 1 pulls; with
\* required_length = 0 the first pull ends it with no chunk yielded.
C13_Finiteness ==
  /\ gen \in {"created", "suspended"} => pulls <= required_length
  /\ gen # "none" /\ required_length = 0 /\ pulls >= 1 =>
       gen = "closed" /\ chunks = << >>

\* the sequence took required_length + 1 pulls to end
C13_Witness ==
  /\ ending = "length"
  /\ required_length >= 2
  /\ pulls = required_length + 1
  /\ Len(chunks) = required_length

\* C14. Not restartable: a pull on a stream that has ended or was abandoned
\* yields no chunk, reads nothing and neither reopens nor closes the
\* response; no byte is yielded twice.
C14_NotRestartable ==
  /\ [][gen = "closed" /\ gen' # "none"
          => /\ gen' = "closed"
             /\ chunks' = chunks
             /\ reads' = reads
             /\ delivered' = delivered
             /\ closes' = closes
             /\ result' # "chunk"]_vars
  /\ [](\A i, j \in 1..SumLen(chunks) :
          i # j => Concat(chunks)[i] # Concat(chunks)[j])

\* a pull was made on an abandoned stream that had yielded a chunk
C14_Witness ==
  /\ ending = "abandoned"
  /\ result = "StopIteration"
  /\ Len(chunks) >= 1
  /\ closes = 1

\* the bytes the reads were short of the amounts they asked for
ShortDelivered == SumSeq([i \in 1..Len(amounts) |-> amounts[i] - Returned(i)])

\* C15. No over-read: with required_length >= 1, once bytes_received has
\* reached required_length no read is issued any more; the bytes requested
\* in total are at most required_length plus the bytes short-delivered, and
\* the bytes read in total are at most required_length.
C15_NoOverRead ==
  /\ [][required_length >= 1 /\ bytes_received >= required_length /\ gen' # "none"
          => reads' = reads /\ amounts' = amounts]_vars
  /\ [](SumSeq(amounts) <= required_length + ShortDelivered)
  /\ [](delivered <= required_length)

\* the sequence ended by the length, after a short read, with no read past it
C15_Witness ==
  /\ required_length >= 1
  /\ bytes_received = required_length
  /\ ending = "length"
  /\ reads = Len(chunks)
  /\ ShortDelivered >= 1

\* C16. Consumer-paced reads: fetch reads nothing of the body, the reads
\* issued on a response never outnumber the pulls made on its stream, and a
\* pull issues at most one read.
C16_ConsumerPaced ==
  /\ [](reads <= pulls)
  /\ [](gen = "created" => reads = 0 /\ delivered = 0)
  /\ [][fetches' = fetches + 1 => reads' = 0 /\ delivered' = 0]_vars
  /\ [][gen' # "none" /\ reads' # reads
          => reads' = reads + 1 /\ pulls' = pulls + 1]_vars

\* every pull so far issued a read
C16_Witness ==
  /\ gen = "suspended"
  /\ pulls >= 2
  /\ reads = pulls

\* C17. Per-round cap: every read asks for min(chunk_size, required_length -
\* bytes returned by the earlier reads), which is never negative, and every
\* chunk yielded is non-empty and no longer than the amount its read asked for.
C17_PerRoundCap ==
  \A i \in 1..Len(amounts) :
    /\ amounts[i] =
         Min(chunk_size, required_length - SumLen(SubSeq(chunks, 1, i - 1)))
    /\ amounts[i] >= 0
    /\ i <= Len(chunks) => Len(chunks[i]) >= 1 /\ Len(chunks[i]) <= amounts[i]

\* the second read was capped by what was left of required_length
C17_Witness ==
  /\ Len(chunks) = 2
  /\ Len(amounts) = 2
  /\ amounts[2] < chunk_size
  /\ amounts[2] = required_length - Len(chunks[1])

\* C19. Default headers are attached once: a Session has Accept-Encoding:
\* identity and the tuf prefix once in front of the client's default
\* User-Agent from the call that made it, and no later call changes them.
C19_HeadersOnce ==
  /\ [](DOMAIN headers = 1..created)
  /\ [](\A s \in DOMAIN headers :
          /\ headers[s].accept_encoding = "identity"
          /\ headers[s].user_agent =
               <<"tuf/", "__version__", " ">> \o DefaultHeaders.user_agent
          /\ Cardinality({i \in 1..Len(headers[s].user_agent) :
                            headers[s].user_agent[i] = "tuf/"}) = 1)
  /\ [][\A s \in DOMAIN headers :
          s \in DOMAIN headers' /\ headers'[s] = headers[s]]_vars

\* two calls to one endpoint were served by one Session
C19_Witness ==
  /\ fetches = 2
  /\ gets = 2
  /\ DOMAIN headers = {1}
  /\ Cardinality(used) = 1
  /\ headers[1].accept_encoding = "identity"

\* C18. Per-read timeout, not an overall deadline: SlowRetrievalError is
\* raised only by a read that waited past socket_timeout; a read that gets a
\* byte within socket_timeout yields it and raises nothing however much time
\* the transfer has taken, the stream keeping no time from read to read.
C18_PerReadTimeout ==
  /\ result = "SlowRetrievalError" => wait > socket_timeout
  /\ last_read \in {"data", "empty"} =>
       wait <= socket_timeout /\ result # "SlowRetrievalError"
  /\ ( /\ ReachesRead
       /\ pulls < MaxPulls
       /\ ReadAmount(chunk_size, required_length, bytes_received) >= 1 )
       => ENABLED TimedPullData(1, socket_timeout)

\* a chunk arrived in time after the transfer took over twice socket_timeout
C18_Witness ==
  /\ result = "chunk"
  /\ wait <= socket_timeout
  /\ elapsed > 2 * socket_timeout

\* both calls are through _get_session with the same (scheme, hostname)
SamePairDone(c, d) ==
  /\ c # d
  /\ pc[c] = "done"
  /\ pc[d] = "done"
  /\ urlparse(call_url[c]) = urlparse(call_url[d])

\* C20. One Session per endpoint under interleaving: two calls for the same
\* (scheme, hostname), not yet in the pool, that interleave at the lookup and
\* the store of _get_session use the same Session, and one Session is made.
C20_OneSessionInterleaved ==
  \A c, d \in Callers :
    SamePairDone(c, d) => mine[c] = mine[d] /\ Cardinality(made) = 1

\* C20 as amended: the two calls use one Session, made once, when one call's
\* lookup runs after the other call's store; when both lookups run before
\* either store each call makes its own Session and the pool keeps the one
\* stored last.
C20_OneSessionWhenLookupAfterStore ==
  \A c, d \in Callers :
    SamePairDone(c, d) =>
      /\ (stored_at_lookup[c] \/ stored_at_lookup[d]) =>
           /\ mine[c] = mine[d]
           /\ Cardinality(made) = 1
           /\ sessions[CallKey(c)] = mine[c]
      /\ (~stored_at_lookup[c] /\ ~stored_at_lookup[d]) =>
           /\ mine[c] # mine[d]
           /\ made = {c, d}
           /\ sessions[CallKey(c)] \in {mine[c], mine[d]}

\* the second call looked the key up after the first had stored it
C20_Witness ==
  /\ SamePairDone(1, 2)
  /\ ~stored_at_lookup[1]
  /\ stored_at_lookup[2]
  /\ mine[1] = mine[2]

====
